---- MODULE Spec2Model ----
(***************************************************************************)
(* State-machine model of tinc's subnet.c: the global subnet tree, the     *)
(* per-node subnet trees, the two-slot IPv4/IPv6 lookup caches, the subnet *)
(* ordering (subnet_compare) and the subnet text parser (str2net).         *)
(***************************************************************************)
EXTENDS Integers, Sequences, FiniteSets, TLC

(***************************************************************************)
(* Bounds of the model.                                                    *)
(***************************************************************************)
\* number of subnet_t objects the heap can hold at once
MaxSubnets == 2
\* number of nodes (owners) of the node registry
MaxNodes == 2
\* the longest run of lookups between two mutations that is recorded
MaxRun == 5

(***************************************************************************)
(* Program constants.                                                      *)
(***************************************************************************)
SUBNET_MAC == 0
SUBNET_IPV4 == 1
SUBNET_IPV6 == 2
\* the NULL pointer (no subnet_t, no node_t)
NULL == 0
\* default weight of str2net
DefaultWeight == 10
\* number of slots of each lookup cache
CacheSlots == 2

Handles == 1..MaxSubnets
Nodes == 1..MaxNodes
Slots == 0..(CacheSlots - 1)

(***************************************************************************)
(* Node names (n->name), as NUL-free byte strings.                         *)
(***************************************************************************)
NamePool == << <<97, 110, 110>>, <<98, 111, 98>>, <<97, 110>>, <<99>> >>
name(n) == NamePool[((n - 1) % Len(NamePool)) + 1]

(***************************************************************************)
(* libc helpers used by the comparison functions.                          *)
(***************************************************************************)
RECURSIVE memcmp(_, _)
memcmp(x, y) ==
    IF x = <<>> \/ y = <<>> THEN 0
    ELSE IF Head(x) # Head(y) THEN Head(x) - Head(y)
    ELSE memcmp(Tail(x), Tail(y))

RECURSIVE strcmp(_, _)
strcmp(x, y) ==
    IF x = <<>> /\ y = <<>> THEN 0
    ELSE IF x = <<>> THEN 0 - Head(y)
    ELSE IF y = <<>> THEN Head(x)
    ELSE IF Head(x) # Head(y) THEN Head(x) - Head(y)
    ELSE strcmp(Tail(x), Tail(y))

MaxInt == 2147483647
MinInt == (-2147483647) - 1

\* a - b on C ints, wrapping at 32 bits (evaluated without leaving the range)
IntSub(a, b) ==
    IF a >= 0 /\ b < 0 /\ a > MaxInt + b THEN (a + MinInt) + (MinInt - b)
    ELSE IF a < 0 /\ b > 0 /\ a < MinInt + b THEN ((a - MinInt) + (MaxInt - b)) + 1
    ELSE a - b

(***************************************************************************)
(* Subnet comparison.  A subnet_t is a record                              *)
(*   [type, address, prefixlength, weight, owner]                          *)
(* with address the bytes of net.mac / net.ipv4 / net.ipv6 in memory order *)
(* and owner a node or NULL.                                               *)
(***************************************************************************)
subnet_compare_mac(a, b) ==
    LET r1 == memcmp(a.address, b.address)
        r2 == IntSub(a.weight, b.weight)
    IN  IF r1 # 0 THEN r1
        ELSE IF r2 # 0 \/ a.owner = NULL \/ b.owner = NULL THEN r2
        ELSE strcmp(name(a.owner), name(b.owner))

\* mutant: the test for a probe without owner looks at a only
subnet_compare_ipv4_owner_a_only(a, b) ==
    LET r0 == b.prefixlength - a.prefixlength
        r1 == memcmp(a.address, b.address)
        r2 == IntSub(a.weight, b.weight)
    IN  IF r0 # 0 THEN r0
        ELSE IF r1 # 0 THEN r1
        ELSE IF r2 # 0 \/ a.owner = NULL THEN r2
        ELSE strcmp(name(a.owner), IF b.owner = NULL THEN <<>> ELSE name(b.owner))

subnet_compare_ipv4(a, b) ==
    LET r0 == b.prefixlength - a.prefixlength
        r1 == memcmp(a.address, b.address)
        r2 == IntSub(a.weight, b.weight)
    IN  IF r0 # 0 THEN r0
        ELSE IF r1 # 0 THEN r1
        ELSE IF r2 # 0 \/ a.owner = NULL \/ b.owner = NULL THEN r2
        ELSE strcmp(name(a.owner), name(b.owner))

subnet_compare_ipv6(a, b) ==
    LET r0 == b.prefixlength - a.prefixlength
        r1 == memcmp(a.address, b.address)
        r2 == IntSub(a.weight, b.weight)
    IN  IF r0 # 0 THEN r0
        ELSE IF r1 # 0 THEN r1
        ELSE IF r2 # 0 \/ a.owner = NULL \/ b.owner = NULL THEN r2
        ELSE strcmp(name(a.owner), name(b.owner))

subnet_compare(a, b) ==
    LET r == a.type - b.type
    IN  IF r # 0 THEN r
        ELSE IF a.type = SUBNET_MAC THEN subnet_compare_mac(a, b)
        ELSE IF a.type = SUBNET_IPV4 THEN subnet_compare_ipv4(a, b)
        ELSE subnet_compare_ipv6(a, b)

(***************************************************************************)
(* maskcmp (netutl.c): 0 iff a and b agree on their first masklen bits.    *)
(***************************************************************************)
\* the top m bits (0 < m < 8) of byte x
TopBits(x, m) == x \div (2 ^ (8 - m))

RECURSIVE maskcmp(_, _, _)
maskcmp(a, b, masklen) ==
    IF masklen >= 8
    THEN IF Head(a) # Head(b) THEN Head(a) - Head(b)
         ELSE maskcmp(Tail(a), Tail(b), masklen - 8)
    ELSE IF masklen > 0 THEN TopBits(Head(a), masklen) - TopBits(Head(b), masklen)
    ELSE 0

(***************************************************************************)
(* Inputs: the subnets callers create, and the addresses they look up.     *)
(***************************************************************************)
Zero(n) == [i \in 1..n |-> 0]

Subnet(type, address, prefixlength, weight) ==
    [type |-> type, address |-> address, prefixlength |-> prefixlength,
     weight |-> weight, owner |-> NULL]

Ipv6Prefix == <<254, 192, 0, 0, 0, 0>>
MacAddr == <<0, 17, 34, 51, 68, 85>>

\* what a caller has written into a subnet_t before it calls subnet_add
Ipv4Subnets ==
    { Subnet(SUBNET_IPV4, <<10, 0, 0, 0>>, 24, 10),
      Subnet(SUBNET_IPV4, <<10, 0, 0, 0>>, 16, 10),
      Subnet(SUBNET_IPV4, <<10, 0, 0, 1>>, 24, 5) }
Ipv6Subnets ==
    { Subnet(SUBNET_IPV6, Ipv6Prefix \o <<0, 1>> \o Zero(8), 64, 10),
      Subnet(SUBNET_IPV6, Ipv6Prefix \o <<0, 0>> \o Zero(8), 48, 10) }
MacSubnets ==
    { Subnet(SUBNET_MAC, MacAddr, 0, 10), Subnet(SUBNET_MAC, MacAddr, 0, 0) }
NewSubnets ==
    Ipv4Subnets \cup Ipv6Subnets \cup { Subnet(SUBNET_MAC, MacAddr, 0, 10) }

Ipv4Queries == { <<10, 0, 0, 5>>, <<10, 0, 1, 1>>, <<192, 168, 0, 1>> }
Ipv6Queries == { Ipv6Prefix \o <<0, 1>> \o Zero(7) \o <<5>>,
                 Ipv6Prefix \o <<0, 2>> \o Zero(7) \o <<1>> }
MacQueries == { MacAddr, <<0, 17, 34, 51, 68, 86>> }

\* xmalloc_and_zero(sizeof(subnet_t))
ZeroSubnet == [type |-> 0, address |-> <<>>, prefixlength |-> 0,
               weight |-> 0, owner |-> NULL]

(***************************************************************************)
(* State.                                                                  *)
(***************************************************************************)
VARIABLES
    subnets,              \* the heap: the subnet_t behind each handle
    subnet_tree,          \* the global tree, as its head..tail traversal
    node_subnet_tree,     \* n->subnet_tree of every node, as its set of entries
    reachable,            \* n->status.reachable of every node
    cache_ipv4_address, cache_ipv4_subnet, cache_ipv4_valid, cache_ipv4_slot,
    cache_ipv6_address, cache_ipv6_subnet, cache_ipv6_valid, cache_ipv6_slot,
    traffic,              \* the address family of the addresses this run looks up
    last,                 \* the last call and what it returned
    since,                \* per looked-up address: the result of its latest lookup
                          \* after the latest subnet_add/subnet_del, or Unknown
    misused,              \* a caller has passed subnet_add a stored entry, or
                          \* subnet_del a node that is not the entry's owner
    args, result          \* the arguments and the result of the last call of a
                          \* pure function (subnet_compare, str2net)

cache_ipv4 == <<cache_ipv4_address, cache_ipv4_subnet, cache_ipv4_valid, cache_ipv4_slot>>
cache_ipv6 == <<cache_ipv6_address, cache_ipv6_subnet, cache_ipv6_valid, cache_ipv6_slot>>
store == <<subnets, subnet_tree, node_subnet_tree>>
pure == <<args, result>>
vars == <<store, reachable, cache_ipv4, cache_ipv6, traffic, last, since, misused, pure>>

Unknown == NULL - 1
Queries == { <<SUBNET_IPV4, q>> : q \in Ipv4Queries }
           \cup { <<SUBNET_IPV6, q>> : q \in Ipv6Queries }

Range(f) == { f[i] : i \in DOMAIN f }
\* the entries that are in the global tree
InTree == Range(subnet_tree)

Call(op, type, address, ret, hit, first) ==
    [op |-> op, type |-> type, address |-> address, ret |-> ret,
     hit |-> hit, first |-> first]
NoCall == Call("init", 0, <<>>, NULL, FALSE, FALSE)

(***************************************************************************)
(* splay_tree: the ordered container of the store.                         *)
(***************************************************************************)
InsertAt(tree, p, h) == SubSeq(tree, 1, p - 1) \o <<h>> \o SubSeq(tree, p, Len(tree))

\* the trees splay_insert(tree, h) can leave: h goes where the descent by the
\* compare function ends, between a predecessor that is not greater and a
\* successor that is not smaller; an entry already linked is not linked twice
splay_insert(tree, h, mem) ==
    IF h \in Range(tree) THEN {tree}
    ELSE { InsertAt(tree, p, h) : p \in
             { q \in 1..(Len(tree) + 1) :
                 /\ q > 1 => subnet_compare(mem[tree[q - 1]], mem[h]) <= 0
                 /\ q <= Len(tree) => subnet_compare(mem[h], mem[tree[q]]) <= 0 } }

\* splay_delete(tree, h): unlinks h; a tree that does not hold it is left as it is
splay_delete(tree, h) == SelectSeq(tree, LAMBDA x : x # h)

\* splay_search(tree, probe): an entry of the tree that compares equal to the probe
splay_search(tree, probe, mem) ==
    { h \in Range(tree) : subnet_compare(probe, mem[h]) = 0 }

(***************************************************************************)
(* The lookup cache.                                                       *)
(***************************************************************************)
\* mutant: only the IPv4 cache is flushed
subnet_cache_flush_one_family ==
    /\ cache_ipv4_valid' = [i \in Slots |-> FALSE]
    /\ UNCHANGED cache_ipv6_valid

subnet_cache_flush ==
    /\ cache_ipv4_valid' = [i \in Slots |-> FALSE]
    /\ cache_ipv6_valid' = [i \in Slots |-> FALSE]

\* the store and the caches after init_subnets
InitSubnets ==
    /\ subnets = [h \in Handles |-> ZeroSubnet]
    /\ subnet_tree = <<>>
    /\ node_subnet_tree = [n \in Nodes |-> {}]
    /\ cache_ipv4_address = [i \in Slots |-> Zero(4)]
    /\ cache_ipv4_subnet = [i \in Slots |-> NULL]
    /\ cache_ipv4_valid = [i \in Slots |-> FALSE]
    /\ cache_ipv4_slot = 0
    /\ cache_ipv6_address = [i \in Slots |-> Zero(16)]
    /\ cache_ipv6_subnet = [i \in Slots |-> NULL]
    /\ cache_ipv6_valid = [i \in Slots |-> FALSE]
    /\ cache_ipv6_slot = 0
    /\ last = NoCall
    /\ since = [q \in Queries |-> Unknown]
    /\ misused = FALSE

Init ==
    /\ InitSubnets
    /\ reachable \in [Nodes -> BOOLEAN]
    /\ traffic \in {SUBNET_IPV4, SUBNET_IPV6}
    /\ args = <<>>
    /\ result = <<>>

(***************************************************************************)
(* Adding and removing subnets.                                            *)
(***************************************************************************)
\* mutant: subnet_add links the entry into the global tree only
subnet_add_global_only(n, h, mem) ==
    LET mem1 == [mem EXCEPT ![h].owner = n]
    IN  /\ subnets' = mem1
        /\ subnet_tree' \in splay_insert(subnet_tree, h, mem1)
        /\ UNCHANGED node_subnet_tree
        /\ subnet_cache_flush
        /\ UNCHANGED <<cache_ipv4_address, cache_ipv4_subnet, cache_ipv4_slot,
                       cache_ipv6_address, cache_ipv6_subnet, cache_ipv6_slot>>

\* mutant: subnet_add without its subnet_cache_flush
subnet_add_noflush(n, h, mem) ==
    LET mem1 == [mem EXCEPT ![h].owner = n]
    IN  /\ subnets' = mem1
        /\ subnet_tree' \in splay_insert(subnet_tree, h, mem1)
        /\ node_subnet_tree' = [node_subnet_tree EXCEPT ![n] = @ \cup {h}]
        /\ UNCHANGED <<cache_ipv4, cache_ipv6>>

\* mutant: subnet_add gives every subnet_t to n
subnet_add_own_all(n, h, mem) ==
    LET mem1 == [g \in Handles |-> [mem[g] EXCEPT !.owner = n]]
    IN  /\ subnets' = mem1
        /\ subnet_tree' \in splay_insert(subnet_tree, h, mem1)
        /\ node_subnet_tree' = [node_subnet_tree EXCEPT ![n] = @ \cup {h}]
        /\ subnet_cache_flush
        /\ UNCHANGED <<cache_ipv4_address, cache_ipv4_subnet, cache_ipv4_slot,
                       cache_ipv6_address, cache_ipv6_subnet, cache_ipv6_slot>>

\* subnet_add(n, h) on a heap mem
subnet_add(n, h, mem) ==
    LET mem1 == [mem EXCEPT ![h].owner = n]
    IN  /\ subnets' = mem1
        /\ subnet_tree' \in splay_insert(subnet_tree, h, mem1)
        /\ node_subnet_tree' = [node_subnet_tree EXCEPT ![n] = @ \cup {h}]
        /\ subnet_cache_flush
        /\ UNCHANGED <<cache_ipv4_address, cache_ipv4_subnet, cache_ipv4_slot,
                       cache_ipv6_address, cache_ipv6_subnet, cache_ipv6_slot>>

\* mutant: subnet_del without its subnet_cache_flush
subnet_del_noflush(n, h) ==
    /\ node_subnet_tree' = [node_subnet_tree EXCEPT ![n] = @ \ {h}]
    /\ subnet_tree' = splay_delete(subnet_tree, h)
    /\ subnets' = IF h \in InTree THEN [subnets EXCEPT ![h] = ZeroSubnet] ELSE subnets
    /\ UNCHANGED <<cache_ipv4, cache_ipv6>>

\* mutant: subnet_del flushes the caches only when it has unlinked the entry
subnet_del_flush_if_present(n, h) ==
    /\ node_subnet_tree' = [node_subnet_tree EXCEPT ![n] = @ \ {h}]
    /\ subnet_tree' = splay_delete(subnet_tree, h)
    /\ subnets' = IF h \in InTree THEN [subnets EXCEPT ![h] = ZeroSubnet] ELSE subnets
    /\ IF h \in InTree THEN subnet_cache_flush
                        ELSE UNCHANGED <<cache_ipv4_valid, cache_ipv6_valid>>
    /\ UNCHANGED <<cache_ipv4_address, cache_ipv4_subnet, cache_ipv4_slot,
                   cache_ipv6_address, cache_ipv6_subnet, cache_ipv6_slot>>

\* subnet_del(n, h); the global tree frees the entry it unlinks (free_subnet)
subnet_del(n, h) ==
    /\ node_subnet_tree' = [node_subnet_tree EXCEPT ![n] = @ \ {h}]
    /\ subnet_tree' = splay_delete(subnet_tree, h)
    /\ subnets' = IF h \in InTree THEN [subnets EXCEPT ![h] = ZeroSubnet] ELSE subnets
    /\ subnet_cache_flush
    /\ UNCHANGED <<cache_ipv4_address, cache_ipv4_subnet, cache_ipv4_slot,
                   cache_ipv6_address, cache_ipv6_subnet, cache_ipv6_slot>>

Mutated(op) ==
    /\ last' = Call(op, 0, <<>>, NULL, FALSE, FALSE)
    /\ since' = [q \in Queries |-> Unknown]

\* a caller allocates a subnet_t (new_subnet), fills it in and adds it for node n
SubnetAdd(values) ==
    \E n \in Nodes, v \in values, h \in Handles \ InTree :
        /\ subnet_add(n, h, [subnets EXCEPT ![h] = v])
        /\ Mutated("add")
        /\ UNCHANGED <<reachable, traffic, misused, pure>>

\* a caller removes an entry of the store from its owner
SubnetDel ==
    \E h \in InTree :
        /\ subnet_del(subnets[h].owner, h)
        /\ Mutated("del")
        /\ UNCHANGED <<reachable, traffic, misused, pure>>

\* the node registry changes a node's reachability
SetReachable ==
    \E n \in Nodes :
        /\ reachable' = [reachable EXCEPT ![n] = ~@]
        /\ last' = Call("reach", 0, <<>>, NULL, FALSE, FALSE)
        /\ UNCHANGED <<store, cache_ipv4, cache_ipv6, traffic, since, misused, pure>>

(***************************************************************************)
(* Subnet lookup routines.                                                 *)
(***************************************************************************)
\* mutant: the loop stops at the first containing entry, reachable or not
RECURSIVE ScanTree_first(_, _, _, _)
ScanTree_first(type, address, i, r) ==
    IF i > Len(subnet_tree) THEN r
    ELSE LET p == subnet_tree[i]
         IN  IF subnets[p].type # type THEN ScanTree_first(type, address, i + 1, r)
             ELSE IF maskcmp(address, subnets[p].address, subnets[p].prefixlength) = 0
                  THEN p
                  ELSE ScanTree_first(type, address, i + 1, r)

\* mutant: the loop does not skip the entries of other types
RECURSIVE ScanTree_anytype(_, _, _, _)
ScanTree_anytype(type, address, i, r) ==
    IF i > Len(subnet_tree) THEN r
    ELSE LET p == subnet_tree[i]
         IN  IF maskcmp(address, subnets[p].address, subnets[p].prefixlength) = 0
             THEN IF reachable[subnets[p].owner] THEN p
                  ELSE ScanTree_anytype(type, address, i + 1, p)
             ELSE ScanTree_anytype(type, address, i + 1, r)

\* the for loop over subnet_tree->head .. of lookup_subnet_ipv4/ipv6, from the
\* i-th entry on, with r the match kept so far
RECURSIVE ScanTree(_, _, _, _)
ScanTree(type, address, i, r) ==
    IF i > Len(subnet_tree) THEN r
    ELSE LET p == subnet_tree[i]
         IN  IF subnets[p].type # type THEN ScanTree(type, address, i + 1, r)
             ELSE IF maskcmp(address, subnets[p].address, subnets[p].prefixlength) = 0
                  THEN IF reachable[subnets[p].owner] THEN p
                       ELSE ScanTree(type, address, i + 1, p)
                  ELSE ScanTree(type, address, i + 1, r)

\* mutant: the cache check takes a nonzero memcmp for a match
CacheHits_inverted(address, valid, addresses) ==
    { i \in Slots : valid[i] /\ memcmp(address, addresses[i]) # 0 }

\* the cache check: the slots that are valid and hold the address
CacheHits(address, valid, addresses) ==
    { i \in Slots : valid[i] /\ memcmp(address, addresses[i]) = 0 }

Min(S) == CHOOSE x \in S : \A y \in S : x <= y

Looked(type, address, ret, hit) ==
    /\ last' = Call("lookup", type, address, ret, hit, since[<<type, address>>] = Unknown)
    /\ since' = [since EXCEPT ![<<type, address>>] = ret]

\* mutant: a hit makes the slot it found the most recently written one
lookup_subnet_ipv4_lru(address) ==
    LET hits == CacheHits(address, cache_ipv4_valid, cache_ipv4_address)
    IN  IF hits # {}
        THEN /\ Looked(SUBNET_IPV4, address, cache_ipv4_subnet[Min(hits)], TRUE)
             /\ cache_ipv4_slot' = Min(hits)
             /\ UNCHANGED <<cache_ipv4_address, cache_ipv4_subnet, cache_ipv4_valid>>
        ELSE LET r == ScanTree(SUBNET_IPV4, address, 1, NULL)
                 slot == 1 - cache_ipv4_slot
             IN  /\ cache_ipv4_slot' = slot
                 /\ cache_ipv4_address' = [cache_ipv4_address EXCEPT ![slot] = address]
                 /\ cache_ipv4_subnet' = [cache_ipv4_subnet EXCEPT ![slot] = r]
                 /\ cache_ipv4_valid' = [cache_ipv4_valid EXCEPT ![slot] = TRUE]
                 /\ Looked(SUBNET_IPV4, address, r, FALSE)

lookup_subnet_ipv4(address) ==
    LET hits == CacheHits(address, cache_ipv4_valid, cache_ipv4_address)
    IN  IF hits # {}
        THEN /\ Looked(SUBNET_IPV4, address, cache_ipv4_subnet[Min(hits)], TRUE)
             /\ UNCHANGED cache_ipv4
        ELSE LET r == ScanTree(SUBNET_IPV4, address, 1, NULL)
                 slot == 1 - cache_ipv4_slot
             IN  /\ cache_ipv4_slot' = slot
                 /\ cache_ipv4_address' = [cache_ipv4_address EXCEPT ![slot] = address]
                 /\ cache_ipv4_subnet' = [cache_ipv4_subnet EXCEPT ![slot] = r]
                 /\ cache_ipv4_valid' = [cache_ipv4_valid EXCEPT ![slot] = TRUE]
                 /\ Looked(SUBNET_IPV4, address, r, FALSE)

lookup_subnet_ipv6(address) ==
    LET hits == CacheHits(address, cache_ipv6_valid, cache_ipv6_address)
    IN  IF hits # {}
        THEN /\ Looked(SUBNET_IPV6, address, cache_ipv6_subnet[Min(hits)], TRUE)
             /\ UNCHANGED cache_ipv6
        ELSE LET r == ScanTree(SUBNET_IPV6, address, 1, NULL)
                 slot == 1 - cache_ipv6_slot
             IN  /\ cache_ipv6_slot' = slot
                 /\ cache_ipv6_address' = [cache_ipv6_address EXCEPT ![slot] = address]
                 /\ cache_ipv6_subnet' = [cache_ipv6_subnet EXCEPT ![slot] = r]
                 /\ cache_ipv6_valid' = [cache_ipv6_valid EXCEPT ![slot] = TRUE]
                 /\ Looked(SUBNET_IPV6, address, r, FALSE)

LookupIpv4(queries) ==
    \E address \in queries :
        /\ traffic = SUBNET_IPV4
        /\ lookup_subnet_ipv4(address)
        /\ UNCHANGED <<store, reachable, cache_ipv6, traffic, misused, pure>>

LookupIpv6(queries) ==
    \E address \in queries :
        /\ traffic = SUBNET_IPV6
        /\ lookup_subnet_ipv6(address)
        /\ UNCHANGED <<store, reachable, cache_ipv4, traffic, misused, pure>>

\* lookup_subnet_mac(address): the probe is a zeroed subnet_t with the address
lookup_subnet_mac(address) ==
    LET probe == [ZeroSubnet EXCEPT !.type = SUBNET_MAC, !.address = address,
                                    !.owner = NULL]
        found == splay_search(subnet_tree, probe, subnets)
    IN  IF found = {} THEN {NULL} ELSE found

LookupMac(queries) ==
    \E address \in queries :
        \E p \in lookup_subnet_mac(address) :
            /\ last' = Call("lookup", SUBNET_MAC, address, p, FALSE, FALSE)
            /\ UNCHANGED <<store, reachable, cache_ipv4, cache_ipv6, traffic, since, misused, pure>>

Next ==
    \/ SubnetAdd(NewSubnets)
    \/ SubnetDel
    \/ SetReachable
    \/ LookupIpv4(Ipv4Queries)
    \/ LookupIpv6(Ipv6Queries)

Spec == Init /\ [][Next]_vars

(***************************************************************************)
(* Callers that break the calling convention: subnet_add of an entry that  *)
(* is already stored, subnet_del with a node that is not the entry's       *)
(* owner.  Such a call can leave a freed entry linked in a local tree, so  *)
(* a run is followed up to its first such call and no further.             *)
(***************************************************************************)
ProperAdd == ~misused /\ SubnetAdd(Ipv4Subnets \cup MacSubnets)

ProperDel == ~misused /\ SubnetDel

SubnetAddStored ==
    \E n \in Nodes, h \in InTree :
        /\ ~misused
        /\ subnet_add(n, h, subnets)
        /\ Mutated("add")
        /\ misused' = TRUE
        /\ UNCHANGED <<reachable, traffic, pure>>

SubnetDelOther ==
    \E n \in Nodes, h \in InTree :
        /\ ~misused
        /\ n # subnets[h].owner
        /\ subnet_del(n, h)
        /\ Mutated("del")
        /\ misused' = TRUE
        /\ UNCHANGED <<reachable, traffic, pure>>

NextAny ==
    \/ ProperAdd
    \/ ProperDel
    \/ SubnetAddStored
    \/ SubnetDelOther

SpecAny == Init /\ [][NextAny]_vars

(***************************************************************************)
(* MAC lookups over a store of MAC and IPv4 subnets.                       *)
(***************************************************************************)
MacAdd == SubnetAdd(MacSubnets \cup { Subnet(SUBNET_IPV4, <<10, 0, 0, 0>>, 24, 10) })

MacDel == SubnetDel

MacLookup == LookupMac(MacQueries)

NextMac ==
    \/ MacAdd
    \/ MacDel
    \/ MacLookup

SpecMac == Init /\ [][NextMac]_vars

(***************************************************************************)
(* Both caches in use at once: lookups of both families between the        *)
(* subnet_add and subnet_del calls, a subnet_del of an entry that is not   *)
(* in the store included.                                                  *)
(***************************************************************************)
InitFlush ==
    /\ InitSubnets
    /\ reachable = [n \in Nodes |-> TRUE]
    /\ traffic = SUBNET_IPV4
    /\ args = <<>>
    /\ result = <<>>

FlushAdd ==
    SubnetAdd({ Subnet(SUBNET_IPV4, <<10, 0, 0, 0>>, 24, 10),
                Subnet(SUBNET_IPV6, Ipv6Prefix \o <<0, 1>> \o Zero(8), 64, 10),
                Subnet(SUBNET_MAC, MacAddr, 0, 10) })

FlushDel == SubnetDel

\* a caller removes a subnet_t that is in no tree
FlushDelAbsent ==
    \E n \in Nodes, h \in Handles \ InTree :
        /\ subnet_del(n, h)
        /\ Mutated("del_absent")
        /\ UNCHANGED <<reachable, traffic, misused, pure>>

FlushIpv4Queries == { <<10, 0, 0, 5>>, <<192, 168, 0, 1>> }

FlushLookupIpv4 ==
    \E address \in FlushIpv4Queries :
        /\ lookup_subnet_ipv4(address)
        /\ UNCHANGED <<store, reachable, cache_ipv6, traffic, misused, pure>>

FlushLookupIpv6 ==
    \E address \in Ipv6Queries :
        /\ lookup_subnet_ipv6(address)
        /\ UNCHANGED <<store, reachable, cache_ipv4, traffic, misused, pure>>

NextFlush ==
    \/ FlushAdd
    \/ FlushDel
    \/ FlushDelAbsent
    \/ FlushLookupIpv4
    \/ FlushLookupIpv6

SpecFlush == InitFlush /\ [][NextFlush]_vars

(***************************************************************************)
(* Runs of lookups: result records the lookups made since the last         *)
(* subnet_add or subnet_del, each with whether it was a cache hit and the  *)
(* slot index of its family when it returned.                              *)
(***************************************************************************)
InitRun ==
    /\ InitSubnets
    /\ reachable = [n \in Nodes |-> TRUE]
    /\ traffic = SUBNET_IPV4
    /\ args = <<>>
    /\ result = <<>>

Recorded(slot) ==
    result' = Append(result, [type |-> last'.type, address |-> last'.address,
                              hit |-> last'.hit, slot |-> slot])

RunAdd ==
    \E n \in Nodes, h \in Handles \ InTree :
      \E v \in { Subnet(SUBNET_IPV4, <<10, 0, 0, 0>>, 24, 10) } :
        /\ subnet_add(n, h, [subnets EXCEPT ![h] = v])
        /\ Mutated("add")
        /\ result' = <<>>
        /\ UNCHANGED <<reachable, traffic, misused, args>>

RunDel ==
    \E h \in InTree :
        /\ subnet_del(subnets[h].owner, h)
        /\ Mutated("del")
        /\ result' = <<>>
        /\ UNCHANGED <<reachable, traffic, misused, args>>

RunLookupIpv4 ==
    \E address \in Ipv4Queries :
        /\ Len(result) < MaxRun
        /\ lookup_subnet_ipv4(address)
        /\ Recorded(cache_ipv4_slot')
        /\ UNCHANGED <<store, reachable, cache_ipv6, traffic, misused, args>>

RunLookupIpv6 ==
    \E address \in { Ipv6Prefix \o <<0, 1>> \o Zero(7) \o <<5>> } :
        /\ Len(result) < MaxRun
        /\ lookup_subnet_ipv6(address)
        /\ Recorded(cache_ipv6_slot')
        /\ UNCHANGED <<store, reachable, cache_ipv4, traffic, misused, args>>

NextRun ==
    \/ RunAdd
    \/ RunDel
    \/ RunLookupIpv4
    \/ RunLookupIpv6

SpecRun == InitRun /\ [][NextRun]_vars

(***************************************************************************)
(* Any sequence of subnet_add, subnet_del and lookup calls, a subnet_add   *)
(* of an entry that is already in the store included.                      *)
(***************************************************************************)
KeysLookupIpv4 ==
    \E address \in FlushIpv4Queries :
        /\ ~misused
        /\ lookup_subnet_ipv4(address)
        /\ UNCHANGED <<store, reachable, cache_ipv6, traffic, misused, pure>>

KeysLookupMac == ~misused /\ LookupMac(MacQueries)

NextKeys ==
    \/ ProperAdd
    \/ ProperDel
    \/ SubnetAddStored
    \/ KeysLookupIpv4
    \/ KeysLookupMac

SpecKeys == InitFlush /\ [][NextKeys]_vars

(***************************************************************************)
(* Lookups between reachability changes: result keeps, for each slot of    *)
(* the cache in use, the reachable flags as they were when the slot was    *)
(* populated.                                                              *)
(***************************************************************************)
NoSnapshot == [i \in Slots |-> [n \in Nodes |-> FALSE]]

InitStable ==
    /\ InitSubnets
    /\ reachable \in [Nodes -> BOOLEAN]
    /\ traffic \in {SUBNET_IPV4, SUBNET_IPV6}
    /\ args = <<>>
    /\ result = NoSnapshot

StableAdd ==
    \E n \in Nodes, h \in Handles \ InTree :
      \E v \in { Subnet(SUBNET_IPV4, <<10, 0, 0, 0>>, 24, 10),
                Subnet(SUBNET_IPV4, <<10, 0, 0, 0>>, 16, 10),
                Subnet(SUBNET_IPV6, Ipv6Prefix \o <<0, 1>> \o Zero(8), 64, 10),
                Subnet(SUBNET_IPV6, Ipv6Prefix \o Zero(10), 48, 10) } :
        /\ v.type = traffic
        /\ subnet_add(n, h, [subnets EXCEPT ![h] = v])
        /\ Mutated("add")
        /\ result' = NoSnapshot
        /\ UNCHANGED <<reachable, traffic, misused, args>>

StableDel ==
    \E h \in InTree :
        /\ subnet_del(subnets[h].owner, h)
        /\ Mutated("del")
        /\ result' = NoSnapshot
        /\ UNCHANGED <<reachable, traffic, misused, args>>

\* a miss populates the slot its family's slot index names on return
Snapshot(slot) ==
    result' = IF last'.hit THEN result ELSE [result EXCEPT ![slot] = reachable]

StableLookupIpv4 ==
    \E address \in Ipv4Queries :
        /\ traffic = SUBNET_IPV4
        /\ lookup_subnet_ipv4(address)
        /\ Snapshot(cache_ipv4_slot')
        /\ UNCHANGED <<store, reachable, cache_ipv6, traffic, misused, args>>

StableLookupIpv6 ==
    \E address \in Ipv6Queries :
        /\ traffic = SUBNET_IPV6
        /\ lookup_subnet_ipv6(address)
        /\ Snapshot(cache_ipv6_slot')
        /\ UNCHANGED <<store, reachable, cache_ipv4, traffic, misused, args>>

NextStable ==
    \/ StableAdd
    \/ StableDel
    \/ SetReachable
    \/ StableLookupIpv4
    \/ StableLookupIpv6

SpecStable == InitStable /\ [][NextStable]_vars

(***************************************************************************)
(* subnet_compare as a function: three subnets of one kind, stored entries *)
(* (with an owner) and probes (owner NULL), compared pairwise.             *)
(***************************************************************************)
Owned(S) == { [v EXCEPT !.owner = o] : v \in S, o \in Nodes \cup {NULL} }

CompareSubnets(type) ==
    IF type = SUBNET_MAC
    THEN Owned(MacSubnets \cup { Subnet(SUBNET_MAC, <<0, 17, 34, 51, 68, 86>>, 0, 10) })
    ELSE IF type = SUBNET_IPV4
    THEN Owned(Ipv4Subnets \cup { Subnet(SUBNET_IPV4, <<10, 0, 0, 0>>, 24, 5),
                                  Subnet(SUBNET_IPV4, <<10, 0, 0, 0>>, 16, 5) })
    ELSE Owned(Ipv6Subnets \cup
               { Subnet(SUBNET_IPV6, Ipv6Prefix \o <<0, 1>> \o Zero(8), 64, 5) })

\* no store, no traffic: only the pure function is called
Quiet ==
    /\ InitSubnets
    /\ reachable = [n \in Nodes |-> FALSE]
    /\ traffic = SUBNET_IPV4

InitCompare ==
    /\ Quiet
    /\ \E type \in {SUBNET_MAC, SUBNET_IPV4, SUBNET_IPV6} :
          args \in CompareSubnets(type) \X CompareSubnets(type) \X CompareSubnets(type)
    /\ result = <<>>

Compare ==
    /\ result = <<>>
    /\ result' = [ab |-> subnet_compare(args[1], args[2]),
                  ba |-> subnet_compare(args[2], args[1]),
                  bc |-> subnet_compare(args[2], args[3]),
                  ac |-> subnet_compare(args[1], args[3])]
    /\ UNCHANGED <<store, reachable, cache_ipv4, cache_ipv6, traffic, last, since,
                   misused, args>>

NextCompare == Compare

SpecCompare == InitCompare /\ [][NextCompare]_vars

\* subnets of one kind with one address and prefix length, of any weight
WeightSubnets(type) ==
    LET key == IF type = SUBNET_MAC THEN Subnet(SUBNET_MAC, MacAddr, 0, 0)
               ELSE IF type = SUBNET_IPV4 THEN Subnet(SUBNET_IPV4, <<10, 0, 0, 0>>, 24, 0)
               ELSE Subnet(SUBNET_IPV6, Ipv6Prefix \o <<0, 1>> \o Zero(8), 64, 0)
    IN  { [key EXCEPT !.weight = w, !.owner = o] :
            w \in { MinInt, 0 - 3, 0, DefaultWeight, MaxInt }, o \in {NULL, 1} }

InitWeight ==
    /\ Quiet
    /\ \E type \in {SUBNET_MAC, SUBNET_IPV4, SUBNET_IPV6} :
          args \in WeightSubnets(type) \X WeightSubnets(type) \X WeightSubnets(type)
    /\ result = <<>>

SpecWeight == InitWeight /\ [][NextCompare]_vars

(***************************************************************************)
(* sscanf, for the conversions and literals of str2net's formats.  A text  *)
(* is a sequence of characters; a format is a sequence of directives, each *)
(* "%hu", "%hx", "%d" or a literal character.  The texts hold no white     *)
(* space and no 0x prefix.                                                 *)
(***************************************************************************)
DecDigits == <<"0", "1", "2", "3", "4", "5", "6", "7", "8", "9">>
HexDigits == DecDigits \o <<"a", "b", "c", "d", "e", "f">>

\* the value of digit c: its place in digits, from 0
DigitValue(c, digits) == (CHOOSE i \in DOMAIN digits : digits[i] = c) - 1

Base(directive) == IF directive = "%hx" THEN 16 ELSE 10
Digits(directive) == IF directive = "%hx" THEN HexDigits ELSE DecDigits

\* the digits of text from pos on, as far as they go: [val, pos] with pos
\* the place after the last digit and val the negated value of the digits
\* (the negated value of a digit run fits an int wherever the value of an
\* int's text does, -2147483648 included)
RECURSIVE ScanDigits(_, _, _, _)
ScanDigits(text, pos, directive, val) ==
    IF pos <= Len(text) /\ text[pos] \in Range(Digits(directive))
    THEN ScanDigits(text, pos + 1, directive,
                    val * Base(directive) - DigitValue(text[pos], Digits(directive)))
    ELSE [val |-> val, pos |-> pos]

\* one conversion at pos: an optional sign, then at least one digit;
\* %hu and %hx store the value as an unsigned short
ScanNumber(text, pos, directive) ==
    LET signed == pos <= Len(text) /\ text[pos] \in {"+", "-"}
        start == IF signed THEN pos + 1 ELSE pos
        d == ScanDigits(text, start, directive, 0)
        v == IF signed /\ text[pos] = "-" THEN d.val ELSE 0 - d.val
    IN  [ok |-> d.pos > start,
         val |-> IF directive = "%d" THEN v ELSE v % 65536,
         pos |-> d.pos]

\* sscanf(text, format) from directive k on: [n, out], n the return value
\* (EOF is -1) and out the values converted
RECURSIVE ScanFormat(_, _, _, _, _)
ScanFormat(text, pos, format, k, out) ==
    IF k > Len(format) THEN [n |-> Len(out), out |-> out]
    ELSE IF pos > Len(text)
    THEN [n |-> IF out = <<>> THEN 0 - 1 ELSE Len(out), out |-> out]
    ELSE IF format[k] \in {"%hu", "%hx", "%d"}
    THEN LET c == ScanNumber(text, pos, format[k])
         IN  IF c.ok THEN ScanFormat(text, c.pos, format, k + 1, Append(out, c.val))
             ELSE [n |-> Len(out), out |-> out]
    ELSE IF text[pos] = format[k]
    THEN ScanFormat(text, pos + 1, format, k + 1, out)
    ELSE [n |-> Len(out), out |-> out]

sscanf(text, format) == ScanFormat(text, 1, format, 1, <<>>)

\* n conversions of one kind separated by a literal
RECURSIVE Group(_, _, _)
Group(directive, separator, n) ==
    IF n = 1 THEN <<directive>>
    ELSE Group(directive, separator, n - 1) \o <<separator, directive>>

Ipv4PrefixFormat == Group("%hu", ".", 4) \o <<"/", "%d", "#", "%d">>
Ipv6PrefixFormat == Group("%hx", ":", 8) \o <<"/", "%d", "#", "%d">>
Ipv4Format == Group("%hu", ".", 4) \o <<"#", "%d">>
Ipv6Format == Group("%hx", ":", 8) \o <<"#", "%d">>
MacFormat == Group("%hx", ":", 6) \o <<"#", "%d">>

(***************************************************************************)
(* str2net.                                                                *)
(***************************************************************************)
\* htons(x) as the two bytes it leaves in memory
htons(x) == <<x \div 256, x % 256>>

RECURSIVE Hextets(_, _)
Hextets(x, n) == IF n = 0 THEN <<>> ELSE Hextets(x, n - 1) \o htons(x[n])

\* the first bytes of an address overwritten
Overwrite(address, bytes) ==
    bytes \o SubSeq(address, Len(bytes) + 1, Len(address))

\* the loop that stores the octets x[0..3]: it returns false at the first
\* octet above 255, after it has stored the octets before it
RECURSIVE StoreOctets(_, _, _)
StoreOctets(subnet, x, i) ==
    IF i > 4 THEN [ret |-> TRUE, subnet |-> [subnet EXCEPT !.address = SubSeq(x, 1, 4)]]
    ELSE IF x[i] > 255
    THEN [ret |-> FALSE,
          subnet |-> [subnet EXCEPT !.address = Overwrite(@, SubSeq(x, 1, i - 1))]]
    ELSE StoreOctets(subnet, x, i + 1)

\* the value of the optional weight conversion, the k-th of the format
Weight(r, k) == IF r.n >= k THEN r.out[k] ELSE DefaultWeight

\* str2net(subnet, subnetstr): [ret, subnet], the return value and the target
\* after the call
str2net(subnet, subnetstr) ==
    LET f1 == sscanf(subnetstr, Ipv4PrefixFormat)
        f2 == sscanf(subnetstr, Ipv6PrefixFormat)
        f3 == sscanf(subnetstr, Ipv4Format)
        f4 == sscanf(subnetstr, Ipv6Format)
        f5 == sscanf(subnetstr, MacFormat)
    IN  IF f1.n >= 5
        THEN IF f1.out[5] < 0 \/ f1.out[5] > 32
             THEN [ret |-> FALSE, subnet |-> subnet]
             ELSE StoreOctets([subnet EXCEPT !.type = SUBNET_IPV4,
                                             !.prefixlength = f1.out[5],
                                             !.weight = Weight(f1, 6)], f1.out, 1)
        ELSE IF f2.n >= 9
        THEN IF f2.out[9] < 0 \/ f2.out[9] > 128
             THEN [ret |-> FALSE, subnet |-> subnet]
             ELSE [ret |-> TRUE,
                   subnet |-> [subnet EXCEPT !.type = SUBNET_IPV6,
                                             !.prefixlength = f2.out[9],
                                             !.weight = Weight(f2, 10),
                                             !.address = Hextets(f2.out, 8)]]
        ELSE IF f3.n >= 4
        THEN StoreOctets([subnet EXCEPT !.type = SUBNET_IPV4,
                                        !.prefixlength = 32,
                                        !.weight = Weight(f3, 5)], f3.out, 1)
        ELSE IF f4.n >= 8
        THEN [ret |-> TRUE,
              subnet |-> [subnet EXCEPT !.type = SUBNET_IPV6,
                                        !.prefixlength = 128,
                                        !.weight = Weight(f4, 9),
                                        !.address = Hextets(f4.out, 8)]]
        ELSE IF f5.n >= 6
        THEN [ret |-> TRUE,
              subnet |-> [subnet EXCEPT !.type = SUBNET_MAC,
                                        !.weight = Weight(f5, 7),
                                        !.address = [i \in 1..6 |-> f5.out[i] % 256]]]
        ELSE [ret |-> FALSE, subnet |-> subnet]

\* the texts handed to str2net
Octets == { <<"1">>, <<"2", "5", "5">>, <<"2", "5", "6">> }
PrefixTexts == { <<"/", "2", "4">>, <<"/", "3", "3">>, <<"/", "-", "1">> }
WeightTexts == { <<>>, <<"#", "5">>, <<"#", "-", "3">> }
Ipv4Texts ==
    { a \o <<".">> \o b \o <<".", "0", ".", "9">> \o p \o w :
        a \in Octets, b \in Octets, p \in {<<>>} \cup PrefixTexts, w \in WeightTexts }
Ipv6Texts ==
    { <<"f", "e", "c", "0", ":", "0", ":", "0", ":", "1", ":", "0", ":", "0", ":", "0", ":", "a">> \o p \o w :
        p \in {<<>>, <<"/", "6", "4">>, <<"/", "1", "2", "9">>} \cup PrefixTexts, w \in WeightTexts }
MacTexts == { <<"0", ":", "1", "1", ":", "2", "2", ":", "3", "3", ":", "4", "4", ":", "f", "f">> \o w : w \in WeightTexts }
OtherTexts == { <<>>, <<"1", ".", "2", ".", "3">>, <<"1", ":", "2", ":", "3">>, <<"1", ".", "0", ".", "0", ".", "9", "/">> }
Texts == Ipv4Texts \cup Ipv6Texts \cup MacTexts \cup OtherTexts

\* the subnet_t handed to str2net: fresh from new_subnet, or parsed before
Targets ==
    { ZeroSubnet,
      [Subnet(SUBNET_IPV6, Ipv6Prefix \o <<0, 1>> \o Zero(8), 64, 7) EXCEPT !.owner = 1] }

InitParse ==
    /\ Quiet
    /\ args \in [target : Targets, text : Texts]
    /\ result = <<>>

Parse ==
    /\ result = <<>>
    /\ result' = str2net(args.target, args.text)
    /\ UNCHANGED <<store, reachable, cache_ipv4, cache_ipv6, traffic, last, since,
                   misused, args>>

NextParse == Parse

SpecParse == InitParse /\ [][NextParse]_vars

(***************************************************************************)
(* snprintf, for the conversions and literals of net2str's formats, and    *)
(* net2str.                                                                *)
(***************************************************************************)
\* the digits of n >= 0 in the base of the directive
RECURSIVE PrintUnsigned(_, _)
PrintUnsigned(n, directive) ==
    LET d == <<Digits(directive)[(n % Base(directive)) + 1]>>
    IN  IF n < Base(directive) THEN d
        ELSE PrintUnsigned(n \div Base(directive), directive) \o d

\* the digits of -n for n <= 0, in base 10, worked out on the negative side
\* so that the smallest int has its digits too
RECURSIVE PrintNegated(_)
PrintNegated(n) ==
    LET last_digit == (10 - (n % 10)) % 10
        rest == (n + last_digit) \div 10
        d == <<DecDigits[last_digit + 1]>>
    IN  IF rest = 0 THEN d ELSE PrintNegated(rest) \o d

\* one conversion of snprintf: %hu and %hx print the argument as an unsigned
\* short, %d as an int
PrintNumber(n, directive) ==
    IF directive = "%d"
    THEN IF n < 0 THEN <<"-">> \o PrintNegated(n) ELSE PrintUnsigned(n, directive)
    ELSE PrintUnsigned(n % 65536, directive)

RECURSIVE PrintFormat(_, _, _)
PrintFormat(format, k, values) ==
    IF k > Len(format) THEN <<>>
    ELSE IF format[k] \in {"%hu", "%hx", "%d"}
    THEN PrintNumber(Head(values), format[k]) \o PrintFormat(format, k + 1, Tail(values))
    ELSE <<format[k]>> \o PrintFormat(format, k + 1, values)

\* snprintf(str, size, format, ...): the text left in str, at most size - 1
\* characters of the whole output
snprintf(size, format, values) ==
    LET whole == PrintFormat(format, 1, values)
    IN  IF Len(whole) < size THEN whole ELSE SubSeq(whole, 1, size - 1)

\* the size of the buffers net2str is called with
MAXNETSTR == 64

ntohs_noswap(bytes) == bytes[2] * 256 + bytes[1]

\* ntohs of the two bytes of a group of an IPv6 address
ntohs(bytes) == bytes[1] * 256 + bytes[2]

\* net2str(netstr, len, subnet) for a subnet of a known type: [ret, netstr]
net2str(len, subnet) ==
    [ret |-> TRUE,
     netstr |->
        IF subnet.type = SUBNET_MAC
        THEN snprintf(len, MacFormat, subnet.address \o <<subnet.weight>>)
        ELSE IF subnet.type = SUBNET_IPV4
        THEN snprintf(len, Ipv4PrefixFormat,
                      subnet.address \o <<subnet.prefixlength, subnet.weight>>)
        ELSE snprintf(len, Ipv6PrefixFormat,
                      [i \in 1..8 |-> ntohs(SubSeq(subnet.address, 2 * i - 1, 2 * i))]
                          \o <<subnet.prefixlength, subnet.weight>>)]

\* the entries handed to net2str
Weights == { MinInt, 0 - 3, 0, DefaultWeight, MaxInt }
Ipv4Addresses == { Zero(4), <<10, 0, 0, 1>>, <<255, 255, 255, 255>> }
Ipv6Addresses ==
    { Zero(16),
      Ipv6Prefix \o <<0, 1>> \o Zero(7) \o <<10>>,
      <<0, 16, 0, 17, 0, 18, 0, 19, 0, 20, 0, 21, 0, 22, 0, 23>>,
      [i \in 1..16 |-> 255] }
MacAddresses == { MacAddr, <<16, 17, 18, 19, 20, 21>>, [i \in 1..6 |-> 255] }
Entries ==
    { Subnet(SUBNET_IPV4, a, l, w) : a \in Ipv4Addresses, l \in {0, 24, 32}, w \in Weights }
    \cup { Subnet(SUBNET_IPV6, a, l, w) : a \in Ipv6Addresses, l \in {0, 64, 128}, w \in Weights }
    \cup { Subnet(SUBNET_MAC, a, 0, w) : a \in MacAddresses, w \in Weights }

\* the subnet_t handed to str2net: it has no owner yet
RoundTargets == { ZeroSubnet, Subnet(SUBNET_IPV6, Ipv6Prefix \o <<0, 1>> \o Zero(8), 64, 7) }

InitRound ==
    /\ Quiet
    /\ args \in [entry : Owned(Entries), target : RoundTargets]
    /\ result = <<>>

Net2Str ==
    /\ result = <<>>
    /\ result' = net2str(MAXNETSTR, args.entry)
    /\ UNCHANGED <<store, reachable, cache_ipv4, cache_ipv6, traffic, last, since,
                   misused, args>>

Str2Net ==
    /\ result # <<>>
    /\ "netstr" \in DOMAIN result
    /\ result' = [parsed |-> str2net(args.target, result.netstr)]
    /\ UNCHANGED <<store, reachable, cache_ipv4, cache_ipv6, traffic, last, since,
                   misused, args>>

NextRound == Net2Str \/ Str2Net

SpecRound == InitRound /\ [][NextRound]_vars

(***************************************************************************)
(* Vocabulary of the properties.                                           *)
(***************************************************************************)
\* bit k (0 = most significant bit of the first byte) of an address
AddrBit(address, k) == (address[(k \div 8) + 1] \div (2 ^ (7 - (k % 8)))) % 2

\* the address lies in the network of entry h: both agree on the first
\* prefixlength bits
Contains(h, address) ==
    \A k \in 0..(subnets[h].prefixlength - 1) :
        AddrBit(address, k) = AddrBit(subnets[h].address, k)

\* the stored entries of a family that contain the address
Containing(type, address) ==
    { h \in InTree : subnets[h].type = type /\ Contains(h, address) }

ReachableContaining(type, address) ==
    { h \in Containing(type, address) : reachable[subnets[h].owner] }

\* the entries of S that no entry of S precedes in the ordering policy
First(S) == { h \in S : \A g \in S : subnet_compare(subnets[h], subnets[g]) <= 0 }

IsIpLookup == last.op = "lookup" /\ last.type \in {SUBNET_IPV4, SUBNET_IPV6}
IsMiss == IsIpLookup /\ ~last.hit

\* the cache of the family of the last lookup
CacheAddress(type) == IF type = SUBNET_IPV4 THEN cache_ipv4_address ELSE cache_ipv6_address
CacheSubnet(type) == IF type = SUBNET_IPV4 THEN cache_ipv4_subnet ELSE cache_ipv6_subnet
CacheValid(type) == IF type = SUBNET_IPV4 THEN cache_ipv4_valid ELSE cache_ipv6_valid
CacheSlot(type) == IF type = SUBNET_IPV4 THEN cache_ipv4_slot ELSE cache_ipv6_slot

(***************************************************************************)
(* C1.  Cache coherence: the first lookup of an address after a subnet_add *)
(* or subnet_del returns what a full scan of the current global tree gives *)
(* for that address, also when the address was cached before the mutation. *)
(***************************************************************************)
C1_CacheCoherence ==
    (IsIpLookup /\ last.first) =>
        last.ret = ScanTree(last.type, last.address, 1, NULL)

\* the address was cached as absent before a mutation (the stale slot still
\* shows it), and its first lookup after the mutation returns an entry
C1_Witness ==
    /\ IsIpLookup /\ last.first /\ last.ret # NULL
    /\ LET other == 1 - CacheSlot(last.type)
       IN  /\ ~CacheValid(last.type)[other]
           /\ CacheAddress(last.type)[other] = last.address
           /\ CacheSubnet(last.type)[other] = NULL

(***************************************************************************)
(* C2.  On a cache miss, when entries of the family contain the address    *)
(* but none of them has a reachable owner, the lookup returns the          *)
(* longest-prefix containing entry: the containing entry that comes first  *)
(* in the ordering policy.                                                 *)
(***************************************************************************)
C2_UnreachableLongestPrefix ==
    (/\ IsMiss
     /\ Containing(last.type, last.address) # {}
     /\ ReachableContaining(last.type, last.address) = {})
        => last.ret \in First(Containing(last.type, last.address))

(***************************************************************************)
(* C3.  On a cache miss, if a containing entry of the family has a         *)
(* reachable owner, the lookup returns the first reachable containing      *)
(* entry in ordering-policy order, never an unreachable one.               *)
(***************************************************************************)
C3_FirstReachable ==
    (IsMiss /\ ReachableContaining(last.type, last.address) # {})
        => last.ret \in First(ReachableContaining(last.type, last.address))

\* the reachable entry returned is less specific than an unreachable
\* containing entry
C3_Witness ==
    /\ IsMiss /\ last.ret # NULL
    /\ reachable[subnets[last.ret].owner]
    /\ \E h \in Containing(last.type, last.address) :
           /\ ~reachable[subnets[h].owner]
           /\ subnets[h].prefixlength > subnets[last.ret].prefixlength

(***************************************************************************)
(* C6.  A cache-miss lookup returns absent exactly when no entry of the    *)
(* family in the global tree contains the address; otherwise it returns an *)
(* entry of the global tree, of that family, that contains the address.    *)
(***************************************************************************)
C6_MissResult ==
    IsMiss =>
        /\ (last.ret = NULL) <=> (Containing(last.type, last.address) = {})
        /\ last.ret # NULL => last.ret \in Containing(last.type, last.address)

\* a miss returns an entry while the tree also holds an entry of another kind
\* and an entry of the family that does not contain the address
C6_Witness ==
    /\ IsMiss /\ last.ret # NULL
    /\ \E h \in InTree :
           \/ subnets[h].type # last.type
           \/ ~Contains(h, last.address)

(***************************************************************************)
(* C7.  No dangling cache reference: every valid cache slot that holds an  *)
(* entry holds one that is in the global tree.                             *)
(***************************************************************************)
C7_NoDanglingCache ==
    \A i \in Slots :
        /\ (cache_ipv4_valid[i] /\ cache_ipv4_subnet[i] # NULL)
              => cache_ipv4_subnet[i] \in InTree
        /\ (cache_ipv6_valid[i] /\ cache_ipv6_subnet[i] # NULL)
              => cache_ipv6_subnet[i] \in InTree

\* one slot is valid and holds a stored entry while the other, invalidated,
\* still holds the reference it had to an entry that was removed
C7_Witness ==
    \E type \in {SUBNET_IPV4, SUBNET_IPV6} : \E i \in Slots :
        /\ CacheValid(type)[i] /\ CacheSubnet(type)[i] # NULL
        /\ ~CacheValid(type)[1 - i]
        /\ CacheSubnet(type)[1 - i] # NULL
        /\ CacheSubnet(type)[1 - i] \notin InTree

(***************************************************************************)
(* C8.  Idempotent lookup: a lookup of an address that is still cached     *)
(* from an earlier lookup (no subnet_add or subnet_del in between) returns *)
(* the result of that earlier lookup, absent included; and no lookup       *)
(* changes the global tree, a local tree or an entry.                      *)
(***************************************************************************)
Cached(type, address) ==
    \E i \in Slots : CacheValid(type)[i] /\ CacheAddress(type)[i] = address

C8_IdempotentLookup ==
    [][ last'.op = "lookup" =>
          /\ store' = store
          /\ (last'.type # SUBNET_MAC /\ Cached(last'.type, last'.address))
                => last'.ret = since[<<last'.type, last'.address>>] ]_vars

\* a repeated lookup returns the earlier result although a reachability
\* change has made a fresh scan give another one
C8_Witness ==
    /\ IsIpLookup /\ last.hit
    /\ last.ret # ScanTree(last.type, last.address, 1, NULL)

(***************************************************************************)
(* C4.  Dual-index invariant: after every subnet_add and subnet_del, an    *)
(* entry is in the global tree iff it is in the local tree of its owner,   *)
(* and a node's local tree holds only entries owned by that node.          *)
(***************************************************************************)
DualIndex ==
    /\ \A h \in InTree :
          /\ subnets[h].owner \in Nodes
          /\ h \in node_subnet_tree[subnets[h].owner]
    /\ \A n \in Nodes : \A h \in node_subnet_tree[n] :
          h \in InTree /\ subnets[h].owner = n

\* as claimed: for any node argument and any stored entry
C4_DualIndexAnyCall == DualIndex

\* as amended: for subnet_add of entries that are not in the store and
\* subnet_del of a stored entry with its owner
C4_DualIndexProperCalls == ~misused => DualIndex

\* after a proper subnet_del a node still holds an entry
C4_Witness ==
    /\ ~misused /\ last.op = "del"
    /\ \E n \in Nodes : node_subnet_tree[n] # {}

(***************************************************************************)
(* C5.  lookup_subnet_mac(address) returns a stored MAC entry with that    *)
(* address whenever the global tree holds one, whatever its weight and     *)
(* owner, and absent only when the tree holds none.                        *)
(***************************************************************************)
MacEntries(address) ==
    { h \in InTree : subnets[h].type = SUBNET_MAC /\ subnets[h].address = address }

C5_MacLookupByAddress ==
    (last.op = "lookup" /\ last.type = SUBNET_MAC) =>
        IF MacEntries(last.address) = {} THEN last.ret = NULL
        ELSE last.ret \in MacEntries(last.address)

(***************************************************************************)
(* C9.  Ordering totality: for entries a, b, c of one kind, stored entries *)
(* and probes, compare(a,b) and compare(b,a) have opposite signs (so       *)
(* exactly one of a<b, a==b, b<a holds) and the relation is transitive:    *)
(* a<=b and b<=c imply a<=c, a==b and b==c imply a==c.                     *)
(***************************************************************************)
Sign(x) == IF x < 0 THEN -1 ELSE IF x > 0 THEN 1 ELSE 0

Compared == result # <<>>

OppositeSigns == Sign(result.ab) = 0 - Sign(result.ba)

Transitive ==
    /\ (result.ab <= 0 /\ result.bc <= 0) => result.ac <= 0
    /\ (result.ab = 0 /\ result.bc = 0) => result.ac = 0

\* b is a probe between two entries that both have an owner
ProbeBetween ==
    args[2].owner = NULL /\ args[1].owner # NULL /\ args[3].owner # NULL

C10_FailureLeavesTarget ==
    (result # <<>> /\ ~result.ret) => result.subnet = args.target

(***************************************************************************)
(* C11.  Round trip: for every valid entry e of kind MAC, IPv4 (prefix     *)
(* 0..32) or IPv6 (prefix 0..128) with any weight, str2net applied to the  *)
(* text of net2str(e) succeeds and yields an entry of the same kind with   *)
(* the same address bytes, prefix length and weight, equal to e under      *)
(* subnet_compare; the text of one kind never parses as another kind.      *)
(***************************************************************************)
RoundTripped == result # <<>> /\ "parsed" \in DOMAIN result

C11_RoundTrip ==
    RoundTripped =>
        LET e == args.entry
            p == result.parsed.subnet
        IN  /\ result.parsed.ret
            /\ p.type = e.type
            /\ p.address = e.address
            /\ e.type # SUBNET_MAC => p.prefixlength = e.prefixlength
            /\ p.weight = e.weight
            /\ subnet_compare(p, e) = 0
            /\ subnet_compare(e, p) = 0

\* a MAC entry whose text is made of decimal digits only, with the smallest
\* weight, has gone through net2str and str2net
C11_Witness ==
    /\ RoundTripped
    /\ result.parsed.ret
    /\ args.entry.type = SUBNET_MAC
    /\ args.entry.address = <<16, 17, 18, 19, 20, 21>>
    /\ args.entry.weight = MinInt
    /\ args.entry.owner # NULL

(***************************************************************************)
(* C12.  Immediately after every subnet_add and every subnet_del returns,  *)
(* all four cache slots (both IPv4 slots and both IPv6 slots) are marked   *)
(* invalid, whatever the kind of the entry added or removed and whether or *)
(* not the removed entry was present.                                      *)
(***************************************************************************)
C12_AllSlotsInvalid ==
    last.op \in {"add", "del", "del_absent"} =>
        \A i \in Slots : ~cache_ipv4_valid[i] /\ ~cache_ipv6_valid[i]

\* a subnet_del of an entry that was not in the store has returned, and all
\* four slots still hold the addresses they were populated with before it
C12_Witness ==
    /\ last.op = "del_absent"
    /\ \A i \in Slots :
          /\ ~cache_ipv4_valid[i] /\ cache_ipv4_address[i] \in FlushIpv4Queries
          /\ ~cache_ipv6_valid[i] /\ cache_ipv6_address[i] \in Ipv6Queries

(***************************************************************************)
(* C13.  Alternating replacement: within one address family, each cache    *)
(* miss writes the slot other than the one written by the previous miss of *)
(* that family, and a cache hit changes neither the slot index nor any     *)
(* slot.  Hence, with no mutation in between, after misses on distinct     *)
(* addresses A then B, a hit on A, and a miss on C, the cache holds B and C *)
(* and a further lookup of A is a miss.                                    *)
(***************************************************************************)
\* the lookups of one family since the last mutation
FamilyRun(type) == SelectSeq(result, LAMBDA e : e.type = type)

\* the misses of one family since the last mutation
FamilyMisses(type) == SelectSeq(result, LAMBDA e : e.type = type /\ ~e.hit)

Alternates ==
    \A type \in {SUBNET_IPV4, SUBNET_IPV6} :
        LET m == FamilyMisses(type)
        IN  \A i \in 1..(Len(m) - 1) : m[i + 1].slot = 1 - m[i].slot

\* r[k..k+3] is a miss on A, a miss on another address B, a hit on A, a miss
MissMissHitMiss(r, k) ==
    /\ ~r[k].hit /\ ~r[k + 1].hit /\ r[k + 2].hit /\ ~r[k + 3].hit
    /\ r[k + 1].address # r[k].address
    /\ r[k + 2].address = r[k].address

HoldsBAndC ==
    \A type \in {SUBNET_IPV4, SUBNET_IPV6} :
        LET r == FamilyRun(type)
        IN  \A k \in 1..(Len(r) - 3) :
              MissMissHitMiss(r, k) =>
                /\ (k + 3 = Len(r)) =>
                      /\ \A i \in Slots : CacheValid(type)[i]
                      /\ { CacheAddress(type)[i] : i \in Slots }
                            = { r[k + 1].address, r[k + 3].address }
                      /\ ~Cached(type, r[k].address)
                /\ (k + 4 = Len(r) /\ r[k + 4].address = r[k].address) => ~r[k + 4].hit

\* a miss writes the slot that the slot index did not name and leaves the
\* other slot alone; a hit changes neither cache
SlotStep ==
    \A t \in {SUBNET_IPV4, SUBNET_IPV6} :
        (last'.op = "lookup" /\ last'.type = t) =>
            IF last'.hit
            THEN UNCHANGED <<cache_ipv4, cache_ipv6>>
            ELSE LET w == 1 - CacheSlot(t)
                 IN  /\ CacheSlot(t)' = w
                     /\ CacheAddress(t)'[w] = last'.address
                     /\ CacheSubnet(t)'[w] = last'.ret
                     /\ CacheValid(t)'[w]
                     /\ CacheAddress(t)'[1 - w] = CacheAddress(t)[1 - w]
                     /\ CacheSubnet(t)'[1 - w] = CacheSubnet(t)[1 - w]
                     /\ CacheValid(t)'[1 - w] = CacheValid(t)[1 - w]

C13_AlternatingReplacement ==
    /\ [](Alternates /\ HoldsBAndC)
    /\ [][SlotStep]_vars

\* misses on A and B, a hit on A, a miss on C and a miss on A again
C13_Witness ==
    LET r == FamilyRun(SUBNET_IPV4)
    IN  /\ Len(r) = 5
        /\ MissMissHitMiss(r, 1)
        /\ r[5].address = r[1].address
        /\ ~r[5].hit
        /\ r[4].address \notin {r[1].address, r[2].address}

(***************************************************************************)
(* C14.  Lower weight preferred: when several stored entries of the same   *)
(* family contain the queried address, have the same prefix length and all *)
(* have reachable owners, a cache-miss lookup returns one with the minimal *)
(* weight among them, whatever their stored address bytes, entries whose   *)
(* addresses differ only in bits beyond the prefix length included.        *)
(***************************************************************************)
C14_LowerWeightPreferred ==
    IsMiss =>
        LET S == Containing(last.type, last.address)
        IN  (/\ Cardinality(S) >= 2
             /\ \A g, h \in S : subnets[g].prefixlength = subnets[h].prefixlength
             /\ \A h \in S : reachable[subnets[h].owner])
                => /\ last.ret \in S
                   /\ \A h \in S : subnets[last.ret].weight <= subnets[h].weight

(***************************************************************************)
(* C15.  Weight order over the full integer range: for any two entries of  *)
(* the same kind with equal prefix length and equal address bytes and any  *)
(* two signed 32-bit weights w1 < w2 (the difference computed with 32-bit  *)
(* wrap-around), subnet_compare orders the entry with weight w1 strictly   *)
(* before the entry with weight w2.                                        *)
(***************************************************************************)
C15_WeightOrderFullRange ==
    Compared =>
        LET a == args[1]
            b == args[2]
        IN  (/\ a.type = b.type
             /\ a.address = b.address
             /\ a.prefixlength = b.prefixlength
             /\ a.weight < b.weight)
                => result.ab < 0 /\ result.ba > 0

(***************************************************************************)
(* C16.  Key immutability: in every sequence of subnet_add, subnet_del and *)
(* lookup calls, subnet_add(n, e) with an entry e that is already in the   *)
(* store under another owner included, no operation changes the kind,      *)
(* address, prefix length, weight or owner of an entry while that entry is *)
(* present in the global tree or in a local tree.                          *)
(***************************************************************************)
\* the entries that are in the global tree or in a local tree
Present == InTree \cup UNION { node_subnet_tree[n] : n \in Nodes }

KeysKept == \A h \in Present \cap Present' : subnets'[h] = subnets[h]

C16_KeyImmutability == [][KeysKept]_vars

\* the same, for calls of subnet_add with an entry that is not in the store
C16_KeyImmutabilityFreshAdds == [][~misused' => KeysKept]_vars

\* a lookup has returned an entry while the store holds two entries of two
\* owners, one of them added after the other
C16_Witness ==
    /\ ~misused
    /\ last.op = "lookup" /\ last.ret # NULL
    /\ Cardinality(InTree) = 2
    /\ \E g, h \in InTree : subnets[g].owner # subnets[h].owner

(***************************************************************************)
(* C17.  Cached result equals fresh scan while reachability is stable: in  *)
(* every reachable state, for every valid cache slot holding (address A,   *)
(* result R), if no owner's reachable flag has changed since that slot was *)
(* populated, then R is exactly what a full scan of the current global     *)
(* tree returns for A; a change of a reachable flag alone (with no         *)
(* subnet_add or subnet_del) never invalidates a slot, so a hit may return *)
(* a result that differs from a fresh scan.                                *)
(***************************************************************************)
\* every owner of a stored entry has the flag it had when slot i was populated
ReachabilityAsPopulated(i) ==
    \A h \in InTree : reachable[subnets[h].owner] = result[i][subnets[h].owner]

SlotsFresh ==
    \A i \in Slots :
        (CacheValid(traffic)[i] /\ ReachabilityAsPopulated(i)) =>
            CacheSubnet(traffic)[i] = ScanTree(traffic, CacheAddress(traffic)[i], 1, NULL)

ReachabilityKeepsCache ==
    reachable' # reachable => UNCHANGED <<cache_ipv4, cache_ipv6>>

C17_CachedEqualsFreshScan ==
    /\ []SlotsFresh
    /\ [][ReachabilityKeepsCache]_vars

\* a hit has returned a result that a fresh scan would not, from a slot
\* populated before a reachability change, while the other slot, populated
\* after it, holds the entry a fresh scan returns
C17_Witness ==
    /\ IsIpLookup /\ last.hit
    /\ last.ret # ScanTree(last.type, last.address, 1, NULL)
    /\ \E i \in Slots :
          /\ CacheValid(traffic)[i] /\ CacheAddress(traffic)[i] = last.address
          /\ ~ReachabilityAsPopulated(i)
          /\ CacheValid(traffic)[1 - i] /\ ReachabilityAsPopulated(1 - i)
          /\ CacheSubnet(traffic)[1 - i] # NULL

====
